---- MODULE Spec2Model ----
(***************************************************************************)
(* Group16Agent: opponent model (issue/value estimators), acceptance and   *)
(* bid search policy, cross-session learning and the pickled opponent      *)
(* store.                                                                  *)
(*                                                                         *)
(* Real numbers (Python floats) are fixed-point integers in units of       *)
(* 1/Scale, every division rounded to the nearest unit. A value that is    *)
(* absent in Python (None) is NoValue for numbers and NoBid for bids.      *)
(***************************************************************************)
EXTENDS Integers, Sequences, FiniteSets, TLC

VARIABLES
    domain,            \* value-set size of every issue (Domain.getIssuesValues)
    profile,           \* own utility of every bid, by AllBidsList index
    opponent_model,    \* self.opponent_model: the OpponentModel object, or NoModel
    crashed,           \* an exception left a handler (ZeroDivisionError)
    self,              \* the other fields of the Group16Agent object
    files,             \* the storage directory: file path -> pickled content
    io_log,            \* the loads and saves of opponent profiles, in order
    now,               \* the clock, in units of 1/Scale of the session's duration
    turn,              \* what the protocol delivers next
    last_move          \* the decision of the agent's latest turn

vars == <<domain, profile, opponent_model, crashed, self, files, io_log, now, turn, last_move>>

(***************************************************************************)
(* Bounds of the model.                                                    *)
(***************************************************************************)
MaxModelOffers == 5
MaxOffers == 5
MaxSessions == 4
MaxStoreOps == 4

(***************************************************************************)
(* Fixed-point arithmetic.                                                 *)
(***************************************************************************)
Scale == 100 * 100

NoValue == 0 - 1
NoBid == <<>>
NoList == <<>>   \* a list that was not built yet (a built one is never empty)
NoModel == [none |-> TRUE]

RoundDiv(a, b) == (2 * a + b) \div (2 * b)

RECURSIVE SeqSum(_)
SeqSum(s) == IF s = <<>> THEN 0 ELSE Head(s) + SeqSum(Tail(s))

\* natural logarithm of the integers 1..12, in units of 1/Scale
LnTable ==
    <<0, 6931, 10986, 13863, 16094, 17918, 19459, 20794, 21972, 23026, 23979, 24849>>

Ln(x) == LnTable[x]

RECURSIVE ExpSeries(_, _, _)
ExpSeries(y, k, term) ==
    IF term = 0 THEN 0 ELSE term + ExpSeries(y, k + 1, RoundDiv(term * y, k * Scale))

RECURSIVE Exp(_)
Exp(y) ==
    IF y > Scale
    THEN LET h == Exp(y \div 2) IN RoundDiv(h * h, Scale)
    ELSE ExpSeries(y, 1, Scale)

\* x ** e for an integer x >= 1 and a fixed-point exponent e in [0, 1]
Pow(x, e) == Exp(RoundDiv(e * Ln(x), Scale))

(***************************************************************************)
(* The domain, its bids and the own-utility oracle.                        *)
(***************************************************************************)
Domains == {<<2, 2>>, <<3, 2>>, <<2, 1>>}

Issues(dom) == 1..Len(dom)

Bids(dom) ==
    LET most == CHOOSE m \in {dom[i] : i \in Issues(dom)} : \A i \in Issues(dom) : dom[i] <= m
    IN  {b \in [Issues(dom) -> 1..most] : \A i \in Issues(dom) : b[i] <= dom[i]}

RECURSIVE DomainSize(_)
DomainSize(dom) == IF dom = <<>> THEN 1 ELSE Head(dom) * DomainSize(Tail(dom))

\* AllBidsList.get(index): mixed-radix decoding of the index, first issue fastest
RECURSIVE BidAt(_, _)
BidAt(dom, index) ==
    IF dom = <<>> THEN <<>>
    ELSE <<(index % Head(dom)) + 1>> \o BidAt(Tail(dom), index \div Head(dom))

BidIndex(dom, bid) == CHOOSE i \in 0..(DomainSize(dom) - 1) : BidAt(dom, i) = bid

\* utility tables of the profiles the agent may be given (one entry per bid index)
ProfileTables ==
    { <<8500, 5000, 8500, 2000, 5000, 6000>>,
      <<10000, 7500, 5000, 2000, 7500, 9200>> }

\* self.profile.getUtility(bid)
getUtility(bid) == profile[BidIndex(domain, bid) + 1]

(***************************************************************************)
(* ValueEstimator and IssueEstimator.                                      *)
(***************************************************************************)
ValueEstimator == [count |-> 0, utility |-> 0]

ValueEstimator_update(vt) == [vt EXCEPT !.count = @ + 1]

ValueEstimator_recalculate_utility(vt, max_value_count, weight) ==
    IF weight < Scale
    THEN LET mod_value_count == Pow(vt.count + 1, Scale - weight) - Scale
             mod_max_value_count == Pow(max_value_count + 1, Scale - weight) - Scale
         IN  [vt EXCEPT !.utility = RoundDiv(mod_value_count * Scale, mod_max_value_count)]
    ELSE [vt EXCEPT !.utility = Scale]

IssueEstimator(num_values) ==
    [ bids_received |-> 0,
      max_value_count |-> 0,
      num_values |-> num_values,
      value_trackers |-> <<>>,
      weight |-> 0 ]

\* self.value_trackers[value] followed by value_tracker.update()
TrackersAfter(est, value) ==
    [v \in (DOMAIN est.value_trackers) \cup {value} |->
        IF v = value
        THEN ValueEstimator_update(
                 IF v \in DOMAIN est.value_trackers THEN est.value_trackers[v]
                 ELSE ValueEstimator)
        ELSE est.value_trackers[v]]

\* mutant: the spread of the values instead of their concentration
WeightNumerator_spread(bids_received, max_value_count, num_values) ==
    bids_received * num_values - max_value_count * num_values

\* equal_shares = bids_received / num_values: numerator and denominator of the
\* weight, both multiplied by num_values
WeightNumerator(bids_received, max_value_count, num_values) ==
    max_value_count * num_values - bids_received

WeightDenominator(bids_received, num_values) ==
    bids_received * num_values - bids_received

\* the division of lines 250-252 raises ZeroDivisionError
IssueEstimator_update_raises(est) ==
    WeightDenominator(est.bids_received + 1, est.num_values) = 0

\* the estimator as the raising division leaves it
IssueEstimator_update_partial(est, value) ==
    LET trackers == TrackersAfter(est, value)
        max_value_count ==
            IF trackers[value].count > est.max_value_count
            THEN trackers[value].count ELSE est.max_value_count
    IN  [est EXCEPT !.bids_received = @ + 1,
                    !.value_trackers = trackers,
                    !.max_value_count = max_value_count]

\* the weight with the equal share left out of the denominator
IssueEstimator_weight_of_total(bids_received, max_value_count, num_values) ==
    RoundDiv(WeightNumerator(bids_received, max_value_count, num_values) * Scale,
             bids_received * num_values)

IssueEstimator_weight(bids_received, max_value_count, num_values) ==
    RoundDiv(WeightNumerator(bids_received, max_value_count, num_values) * Scale,
             WeightDenominator(bids_received, num_values))

IssueEstimator_update(est, value) ==
    LET counted == IssueEstimator_update_partial(est, value)
        weight == IssueEstimator_weight(counted.bids_received,
                                        counted.max_value_count, counted.num_values)
    IN  [counted EXCEPT
            !.weight = weight,
            !.value_trackers =
                [v \in DOMAIN counted.value_trackers |->
                    ValueEstimator_recalculate_utility(
                        counted.value_trackers[v], counted.max_value_count, weight)]]

IssueEstimator_get_value_utility(est, value) ==
    IF value \in DOMAIN est.value_trackers THEN est.value_trackers[value].utility ELSE 0

(***************************************************************************)
(* OpponentModel.                                                          *)
(***************************************************************************)
OpponentModel(dom) ==
    [ offers |-> <<>>,
      best_bid_for_us |-> NoBid,
      best_bid_utility |-> 0,
      issue_estimators |-> [i \in Issues(dom) |-> IssueEstimator(dom[i])],
      bid_count |-> 0,
      concession_rate |-> 0,
      repeated_bids |-> <<>>,
      force_accept_at_remaining_turns |-> Scale,
      force_accept_at_remaining_turns_light |-> Scale,
      top_bids_percentage |-> RoundDiv(Scale, 300),
      opponent_utilities |-> <<>> ]

\* mutant: the issue weights are used without normalisation
get_predicted_utility_unnormalised(om, bid) ==
    IF Len(om.offers) = 0 \/ bid = NoBid THEN 0
    ELSE
        LET ests == om.issue_estimators
            n == Len(ests)
        IN  RoundDiv(SeqSum([i \in 1..n |->
                        ests[i].weight
                        * IssueEstimator_get_value_utility(ests[i], bid[i])]), Scale)

get_predicted_utility(om, bid) ==
    IF Len(om.offers) = 0 \/ bid = NoBid THEN 0
    ELSE
        LET ests == om.issue_estimators
            n == Len(ests)
            value_utilities ==
                [i \in 1..n |-> IssueEstimator_get_value_utility(ests[i], bid[i])]
            weights == [i \in 1..n |-> ests[i].weight]
            total_issue_weight == SeqSum(weights)
            issue_weights ==
                IF total_issue_weight = 0
                THEN [i \in 1..n |-> RoundDiv(Scale, n)]
                ELSE [i \in 1..n |-> RoundDiv(weights[i] * Scale, total_issue_weight)]
        IN  RoundDiv(SeqSum([i \in 1..n |-> issue_weights[i] * value_utilities[i]]), Scale)

\* the strictly positive differences of consecutive entries
Decreases(utilities) ==
    LET idx == {i \in 2..Len(utilities) : utilities[i - 1] - utilities[i] > 0}
    IN  [count |-> Cardinality(idx),
         total |-> SeqSum([i \in 1..Len(utilities) |->
                              IF i \in idx THEN utilities[i - 1] - utilities[i] ELSE 0])]

OpponentModel_update_raises(om) ==
    \E i \in DOMAIN om.issue_estimators : IssueEstimator_update_raises(om.issue_estimators[i])

\* mutant: an offer of equal own utility replaces the best bid
OpponentModel_track_ties(om, bid, our_utility) ==
    LET better == our_utility # NoValue
                  /\ (om.best_bid_for_us = NoBid \/ our_utility >= om.best_bid_utility)
    IN  [om EXCEPT
            !.offers = Append(@, bid),
            !.bid_count = @ + 1,
            !.repeated_bids =
                [b \in (DOMAIN @) \cup {bid} |->
                    IF b = bid THEN (IF b \in DOMAIN @ THEN @[b] ELSE 0) + 1 ELSE @[b]],
            !.best_bid_for_us = IF better THEN bid ELSE @,
            !.best_bid_utility = IF better THEN our_utility ELSE @]

\* lines 49-59: offers, counters and the best bid for us
OpponentModel_track(om, bid, our_utility) ==
    LET better == our_utility # NoValue
                  /\ (om.best_bid_for_us = NoBid \/ our_utility > om.best_bid_utility)
    IN  [om EXCEPT
            !.offers = Append(@, bid),
            !.bid_count = @ + 1,
            !.repeated_bids =
                [b \in (DOMAIN @) \cup {bid} |->
                    IF b = bid THEN (IF b \in DOMAIN @ THEN @[b] ELSE 0) + 1 ELSE @[b]],
            !.best_bid_for_us = IF better THEN bid ELSE @,
            !.best_bid_utility = IF better THEN our_utility ELSE @]

\* the model as an exception in the estimator loop (lines 62-63) leaves it
OpponentModel_update_partial(om, bid, our_utility) ==
    LET tracked == OpponentModel_track(om, bid, our_utility)
        first == CHOOSE i \in DOMAIN om.issue_estimators :
                    /\ IssueEstimator_update_raises(om.issue_estimators[i])
                    /\ \A j \in 1..(i - 1) :
                          ~IssueEstimator_update_raises(om.issue_estimators[j])
    IN  [tracked EXCEPT
            !.issue_estimators =
                [i \in DOMAIN @ |->
                    IF i < first THEN IssueEstimator_update(@[i], bid[i])
                    ELSE IF i = first THEN IssueEstimator_update_partial(@[i], bid[i])
                    ELSE @[i]]]

\* update taking the utility sample before the estimators saw the offer
OpponentModel_update_stale_sample(om, bid, our_utility) ==
    LET tracked == OpponentModel_track(om, bid, our_utility)
        estimated ==
            [tracked EXCEPT
                !.issue_estimators =
                    [i \in DOMAIN @ |-> IssueEstimator_update(@[i], bid[i])]]
        opponent_utility == get_predicted_utility(tracked, bid)
        utilities == Append(estimated.opponent_utilities, opponent_utility)
        decreases == Decreases(utilities)
    IN  [estimated EXCEPT
            !.opponent_utilities = utilities,
            !.concession_rate =
                IF Len(utilities) >= 2 /\ decreases.count > 0
                THEN RoundDiv(decreases.total, decreases.count)
                ELSE @]

OpponentModel_update(om, bid, our_utility) ==
    LET tracked == OpponentModel_track(om, bid, our_utility)
        estimated ==
            [tracked EXCEPT
                !.issue_estimators =
                    [i \in DOMAIN @ |-> IssueEstimator_update(@[i], bid[i])]]
        opponent_utility == get_predicted_utility(estimated, bid)
        utilities == Append(estimated.opponent_utilities, opponent_utility)
        decreases == Decreases(utilities)
    IN  [estimated EXCEPT
            !.opponent_utilities = utilities,
            !.concession_rate =
                IF Len(utilities) >= 2 /\ decreases.count > 0
                THEN RoundDiv(decreases.total, decreases.count)
                ELSE @]

\* mutant: the conceder test comes before the hardheaded test
get_opponent_type_conceder_first(om) ==
    IF om.bid_count < 3 THEN "UNKNOWN"
    ELSE
        LET unique_bids == Cardinality(DOMAIN om.repeated_bids)
            bid_repetition_ratio == RoundDiv(unique_bids * Scale, om.bid_count)
        IN  IF om.concession_rate > 500 THEN "CONCEDER"
            ELSE IF om.concession_rate < 200 \/ bid_repetition_ratio < 5000
                 THEN "HARDHEADED"
            ELSE "NEUTRAL"

get_opponent_type(om) ==
    IF om.bid_count < 3 THEN "UNKNOWN"
    ELSE
        LET unique_bids == Cardinality(DOMAIN om.repeated_bids)
            bid_repetition_ratio == RoundDiv(unique_bids * Scale, om.bid_count)
        IN  IF om.concession_rate < 200 \/ bid_repetition_ratio < 5000 THEN "HARDHEADED"
            ELSE IF om.concession_rate > 500 THEN "CONCEDER"
            ELSE "NEUTRAL"

(***************************************************************************)
(* OpponentModel.learn_from_past_sessions.                                 *)
(***************************************************************************)
hard_accept_levels == <<0, 0, Scale, RoundDiv(11 * Scale, 10)>>
soft_accept_levels == <<0, Scale, RoundDiv(11 * Scale, 10)>>
top_bids_levels == <<RoundDiv(Scale, 300), RoundDiv(Scale, 100), RoundDiv(Scale, 30)>>

\* session.get("utilityAtFinish", 1)
SessionUtility(session) ==
    IF "utilityAtFinish" \in DOMAIN session THEN session.utilityAtFinish ELSE Scale

RECURSIVE failed_sessions_count(_)
failed_sessions_count(sessions) ==
    IF sessions = <<>> THEN 0
    ELSE (IF SessionUtility(Head(sessions)) = 0 THEN 1 ELSE 0)
         + failed_sessions_count(Tail(sessions))

RECURSIVE low_utility_sessions_count(_)
low_utility_sessions_count(sessions) ==
    IF sessions = <<>> THEN 0
    ELSE (IF SessionUtility(Head(sessions)) < 5000 THEN 1 ELSE 0)
         + low_utility_sessions_count(Tail(sessions))

\* the index into a table of levels: the count, or the last index of the table
LevelIndex(count, levels) == IF count >= Len(levels) THEN Len(levels) - 1 ELSE count

\* mutant: the soft level is indexed by the count of low-utility sessions
learn_from_past_sessions_soft_by_low(om, sessions) ==
    LET failed == failed_sessions_count(sessions)
        low == low_utility_sessions_count(sessions)
    IN  [om EXCEPT
            !.force_accept_at_remaining_turns =
                hard_accept_levels[LevelIndex(failed, hard_accept_levels) + 1],
            !.force_accept_at_remaining_turns_light =
                soft_accept_levels[LevelIndex(low, soft_accept_levels) + 1],
            !.top_bids_percentage =
                top_bids_levels[LevelIndex(low, top_bids_levels) + 1]]

learn_from_past_sessions(om, sessions) ==
    LET failed == failed_sessions_count(sessions)
        low == low_utility_sessions_count(sessions)
    IN  [om EXCEPT
            !.force_accept_at_remaining_turns =
                hard_accept_levels[LevelIndex(failed, hard_accept_levels) + 1],
            !.force_accept_at_remaining_turns_light =
                soft_accept_levels[LevelIndex(failed, soft_accept_levels) + 1],
            !.top_bids_percentage =
                top_bids_levels[LevelIndex(low, top_bids_levels) + 1]]

(***************************************************************************)
(* wrapper.py: the Opponent object and the pickled store.                  *)
(***************************************************************************)
NoOpponent == [none |-> TRUE]

Opponent(name, sessions) ==
    [ result |-> 0, finalUtility |-> 0, offerVariance |-> <<>>,
      name |-> name, sessions |-> sessions ]

\* file_path = savepath + name + ".plk"
FilePath(savepath, name) == <<savepath, name, ".plk">>

\* pd.to_pickle(obj, file_path) and what pd.read_pickle gives back
ToPickle(obj) == [class |-> "Opponent", state |-> obj]

CorruptFile == [class |-> "bytes"]

\* pd.read_pickle raises, or the object read is no Opponent
ReadFails(fs, file_path) ==
    IF file_path \notin DOMAIN fs THEN TRUE ELSE fs[file_path].class # "Opponent"

\* the entry of a directory that exists without write permission
ReadOnlyDirectory == [class |-> "directory", writable |-> FALSE]

\* pd.to_pickle and open(..., "w") raise OSError: the directory is not writable
WriteFails(fs, savepath) ==
    IF <<savepath>> \in DOMAIN fs THEN ~fs[<<savepath>>].writable ELSE FALSE

WriteFile(fs, file_path, content) ==
    [q \in (DOMAIN fs) \cup {file_path} |-> IF q = file_path THEN content ELSE fs[q]]

\* line 40: the pd.to_pickle inside the except clause raises
get_opponent_data_raises(fs, savepath, name) ==
    ReadFails(fs, FilePath(savepath, name)) /\ WriteFails(fs, savepath)

\* the Opponent returned and the files afterwards
get_opponent_data(fs, savepath, name) ==
    LET file_path == FilePath(savepath, name)
    IN  IF ReadFails(fs, file_path)
        THEN [ opponent |-> Opponent(name, <<>>),
               files |-> WriteFile(fs, file_path, ToPickle(Opponent(name, <<>>))) ]
        ELSE [ opponent |-> fs[file_path].state, files |-> fs ]

\* mutant: the file is written under a path that leaves out the opponent's name
save_opponent_data_no_name(fs, savepath, opponent) ==
    IF opponent = NoOpponent THEN fs
    ELSE WriteFile(fs, FilePath(savepath, ""), ToPickle(opponent))

save_opponent_data(fs, savepath, opponent) ==
    IF opponent = NoOpponent THEN fs
    ELSE WriteFile(fs, FilePath(savepath, opponent.name), ToPickle(opponent))

SessionData(progress, utility_at_finish, did_accept, om) ==
    [ progressAtFinish |-> progress,
      utilityAtFinish |-> utility_at_finish,
      didAccept |-> did_accept,
      isGood |-> utility_at_finish >= 7000,
      topBidsPercentage |->
          IF om # NoModel THEN om.top_bids_percentage ELSE RoundDiv(Scale, 300),
      forceAcceptAtRemainingTurns |->
          IF om # NoModel THEN om.force_accept_at_remaining_turns ELSE Scale ]

\* the Opponent object and the files afterwards
create_and_save_session_data(fs, opponent, savepath, progress, utility_at_finish, did_accept, om) ==
    IF opponent = NoOpponent THEN [opponent |-> opponent, files |-> fs]
    ELSE
        LET added == [opponent EXCEPT
                         !.sessions = Append(@, SessionData(progress, utility_at_finish,
                                                            did_accept, om))]
        IN  [opponent |-> added, files |-> save_opponent_data(fs, savepath, added)]

(***************************************************************************)
(* Group16Agent.                                                           *)
(***************************************************************************)
storage_dir == "storage_dir/"

NoMove == [action |-> "none"]

\* __init__, and the Settings message that precedes every other message
Group16Agent ==
    [ best_bid |-> NoBid,
      bids_with_utilities |-> NoList,
      other |-> "",
      got_opponent |-> FALSE,
      last_received_bid |-> NoBid,
      opponent |-> NoOpponent,
      round_count |-> 0,
      opponent_utilities |-> <<>>,
      concession_rate |-> 0,
      opponent_utility_variance |-> 0,
      probing_phase_complete |-> FALSE,
      avg_time_per_round |-> NoValue,
      round_times |-> <<>>,
      last_time |-> NoValue,
      utility_at_finish |-> 0,
      did_accept |-> FALSE,
      force_accept_at_remaining_turns |-> Scale,
      force_accept_at_remaining_turns_light |-> Scale,
      top_bids_percentage |-> RoundDiv(Scale, 300) ]

\* statistics.variance: the sample variance
variance(xs) ==
    LET n == Len(xs)
        m == RoundDiv(SeqSum(xs), n)
        squares == SeqSum([i \in 1..n |-> (xs[i] - m) * (xs[i] - m)])
    IN  RoundDiv(RoundDiv(squares, n - 1), Scale)

update_concession_metrics(agent) ==
    LET decreases == Decreases(agent.opponent_utilities)
    IN  [agent EXCEPT
            !.opponent_utility_variance = variance(agent.opponent_utilities),
            !.concession_rate =
                RoundDiv(decreases.total,
                         IF decreases.count > 1 THEN decreases.count ELSE 1)]

\* mutant: the target rises with progress
calculate_target_utility_rising(agent, progress) ==
    LET umax == 9500
        umin == 7000
        rigid == agent.opponent_utility_variance < 100 \/ agent.concession_rate < 200
        yielding == agent.opponent_utility_variance > 300 \/ agent.concession_rate > 500
        concession_factor == IF rigid THEN 11000 ELSE IF yielding THEN 8000 ELSE Scale
        adjusted_umin ==
            IF rigid THEN (IF umin - 500 > 6500 THEN umin - 500 ELSE 6500)
            ELSE IF yielding THEN (IF umin + 500 < 8500 THEN umin + 500 ELSE 8500)
            ELSE umin
        target == adjusted_umin
                  + RoundDiv(RoundDiv((umax - adjusted_umin) * progress, Scale)
                             * concession_factor, Scale)
    IN  IF target > adjusted_umin THEN target ELSE adjusted_umin

\* lines 345-355: the branch the opponent's signals select
concession_behaviour(agent) ==
    IF agent.opponent_utility_variance < 100 \/ agent.concession_rate < 200 THEN "low"
    ELSE IF agent.opponent_utility_variance > 300 \/ agent.concession_rate > 500 THEN "high"
    ELSE "neutral"

\* umin after lines 348 and 352 (min_target_utility is 0.7)
adjusted_umin(agent) ==
    LET umin == 7000
    IN  IF concession_behaviour(agent) = "low"
        THEN (IF umin - 500 > 6500 THEN umin - 500 ELSE 6500)
        ELSE IF concession_behaviour(agent) = "high"
        THEN (IF umin + 500 < 8500 THEN umin + 500 ELSE 8500)
        ELSE umin

concession_factor(agent) ==
    IF concession_behaviour(agent) = "low" THEN 11000
    ELSE IF concession_behaviour(agent) = "high" THEN 8000
    ELSE Scale

\* line 358: umax - (umax - umin) * progress * concession_factor
raw_target_utility(agent, progress) ==
    LET umax == 9500
    IN  umax - RoundDiv(RoundDiv((umax - adjusted_umin(agent)) * progress, Scale)
                        * concession_factor(agent), Scale)

\* calculate_target_utility without the cap of line 361
calculate_target_utility_uncapped(agent, progress) ==
    raw_target_utility(agent, progress)

calculate_target_utility(agent, progress) ==
    LET target == raw_target_utility(agent, progress)
    IN  IF target > adjusted_umin(agent) THEN target ELSE adjusted_umin(agent)

\* 1 - 1000 * force_accept_at_remaining_turns * avg_time_per_round / duration
\* (the clock's unit is 1/Scale of the duration)
threshold(agent) ==
    IF agent.avg_time_per_round # NoValue
    THEN Scale - RoundDiv(agent.force_accept_at_remaining_turns * agent.avg_time_per_round,
                          Scale)
    ELSE 9800

\* 1 - 5000 * force_accept_at_remaining_turns_light * avg_time_per_round / duration
light_threshold(agent) ==
    IF agent.avg_time_per_round # NoValue
    THEN Scale - RoundDiv(5 * agent.force_accept_at_remaining_turns_light
                            * agent.avg_time_per_round, Scale)
    ELSE 9500

\* accept_condition with the soft branch asking for the whole target
accept_condition_no_margin(agent, bid, progress) ==
    IF bid = NoBid THEN FALSE
    ELSE
        LET utility == getUtility(bid)
            target_utility == calculate_target_utility(agent, progress)
        IN  \/ utility > 9000
            \/ utility >= target_utility
            \/ progress > threshold(agent)
            \/ (progress > light_threshold(agent) /\ utility >= target_utility)

\* accept_condition without the guard for an absent bid: only the tests that do
\* not read the bid's utility are left for it
accept_condition_unguarded(agent, bid, progress) ==
    IF bid = NoBid THEN progress > threshold(agent)
    ELSE accept_condition_no_margin(agent, bid, progress)
         \/ (progress > light_threshold(agent)
             /\ getUtility(bid) >= calculate_target_utility(agent, progress) - 500)

\* the value accept_condition returns for a bid that is not None
accept_condition(agent, bid, progress) ==
    IF bid = NoBid THEN FALSE
    ELSE
        LET utility == getUtility(bid)
            target_utility == calculate_target_utility(agent, progress)
        IN  \/ utility > 9000
            \/ utility >= target_utility
            \/ progress > threshold(agent)
            \/ (progress > light_threshold(agent) /\ utility >= target_utility - 500)

\* lines 375-376: accept_condition also keeps the best bid
accept_condition_best_bid(agent, bid) ==
    IF bid # NoBid /\ (agent.best_bid = NoBid \/ getUtility(agent.best_bid) < getUtility(bid))
    THEN bid ELSE agent.best_bid

\* the list of lines 432-436 without the sort of line 439
UnsortedBids ==
    LET size == DomainSize(domain)
    IN  SubSeq([i \in 1..size |->
                   <<BidAt(domain, i - 1), getUtility(BidAt(domain, i - 1))>>], 1, size)

\* lines 431-439: every bid of AllBidsList with its utility, sorted by utility,
\* highest first; list.sort is stable, so among equal utilities the AllBidsList
\* order is kept: the bid of index i comes after the bids of higher utility and
\* the bids of equal utility and lower index
SortedBids ==
    LET size == DomainSize(domain)
        \* (SubSeq has each sequence computed once)
        utility == SubSeq([i \in 1..size |-> getUtility(BidAt(domain, i - 1))], 1, size)
        ahead == SubSeq([i \in 1..size |->
                            Cardinality({j \in 1..size :
                                utility[j] > utility[i]
                                \/ (utility[j] = utility[i] /\ j < i)})], 1, size)
    IN  SubSeq([k \in 1..size |->
                   LET i == CHOOSE i \in 1..size : ahead[i] = k - 1
                   IN  <<BidAt(domain, i - 1), utility[i]>>], 1, size)

bids_with_utilities_after(agent) ==
    IF agent.bids_with_utilities = NoList THEN SortedBids
    ELSE agent.bids_with_utilities

\* the target of find_bid without the probing phase of lines 413-415
find_bid_target_without_probing(agent, progress) == calculate_target_utility(agent, progress)

\* lines 413-418
find_bid_target(agent, progress) ==
    IF agent.round_count < 5
    THEN (IF 9500 - agent.round_count * 100 > 9000
          THEN 9500 - agent.round_count * 100 ELSE 9000)
    ELSE calculate_target_utility(agent, progress)

\* lines 425-428: the best received bid is offered again
find_bid_reoffers(agent, progress) ==
    /\ progress > light_threshold(agent)
    /\ agent.best_bid # NoBid
    /\ getUtility(agent.best_bid) >= find_bid_target(agent, progress) - 1000

\* eligible_bids with the tolerance of the re-offer applied to the filter
eligible_bids_with_tolerance(sorted, target_utility) ==
    LET meets == SelectSeq(sorted, LAMBDA pair : pair[2] >= target_utility - 1000)
    IN  SubSeq(meets, 1, IF Len(meets) < 100 THEN Len(meets) ELSE 100)

\* eligible_bids without the break at 100 entries
eligible_bids_unlimited(sorted, target_utility) ==
    SelectSeq(sorted, LAMBDA pair : pair[2] >= target_utility)

\* lines 442-448: the first 100 bids, in sort order, that meet the target
eligible_bids(sorted, target_utility) ==
    LET meets == SelectSeq(sorted, LAMBDA pair : pair[2] >= target_utility)
    IN  SubSeq(meets, 1, IF Len(meets) < 100 THEN Len(meets) ELSE 100)

\* the fallback window without the cap at the length of the list
fallback_indexes_uncapped(agent, sorted, progress) ==
    LET raw == agent.top_bids_percentage + RoundDiv(progress * 1900, Scale)
        capped == IF raw < 2000 THEN raw ELSE 2000
        top_percentage == IF capped > 100 THEN capped ELSE 100
        window == (DomainSize(domain) * top_percentage) \div Scale
    IN  0..((IF window > 5 THEN window ELSE 5) - 1)

\* lines 455-457: the indexes randint may draw in the fallback
fallback_indexes(agent, sorted, progress) ==
    LET raw == agent.top_bids_percentage + RoundDiv(progress * 1900, Scale)
        capped == IF raw < 2000 THEN raw ELSE 2000
        top_percentage == IF capped > 100 THEN capped ELSE 100
        window == (DomainSize(domain) * top_percentage) \div Scale
        expanded_top_bids == IF window > 5 THEN window ELSE 5
    IN  0..((IF expanded_top_bids < Len(sorted) THEN expanded_top_bids ELSE Len(sorted)) - 1)

\* every result find_bid can return, with the branch that returned it
find_bid(agent, progress) ==
    LET target_utility == find_bid_target(agent, progress)
        sorted == bids_with_utilities_after(agent)
        eligible == eligible_bids(sorted, target_utility)
    IN  IF find_bid_reoffers(agent, progress)
        THEN { [bid |-> agent.best_bid, target |-> target_utility, via |-> "best_bid"] }
        ELSE IF eligible # <<>>
        THEN { [bid |-> eligible[k][1], target |-> target_utility, via |-> "eligible"] :
                  k \in 1..Len(eligible) }
        ELSE { [bid |-> sorted[k + 1][1], target |-> target_utility, via |-> "fallback"] :
                  k \in fallback_indexes(agent, sorted, progress) }

\* lines 242-248: the round times and their trailing mean
my_turn_timing(agent, current_time) ==
    IF agent.last_time = NoValue THEN [agent EXCEPT !.last_time = current_time]
    ELSE
        LET times == Append(agent.round_times, current_time - agent.last_time)
            n == Len(times)
        IN  [agent EXCEPT
                !.round_times = times,
                !.avg_time_per_round =
                    IF n >= 3 THEN RoundDiv(times[n - 2] + times[n - 1] + times[n], 3) ELSE @,
                !.last_time = current_time]

\* the load of line 254 without the got_opponent guard
my_turn_loads_unguarded(agent) == agent.other # ""

\* lines 254-264: the profile is loaded once and the learned knobs are copied
my_turn_loads(agent) == agent.other # "" /\ ~agent.got_opponent

\* opponent_action computing the concession metrics from the second offer on
opponent_action_bookkeeping_early_metrics(agent, om, bid) ==
    LET our_utility == getUtility(bid)
        tracked ==
            [agent EXCEPT
                !.best_bid =
                    IF @ = NoBid \/ our_utility > getUtility(@) THEN bid ELSE @,
                !.opponent_utilities = Append(@, get_predicted_utility(om, bid)),
                !.last_received_bid = bid]
    IN  IF Len(tracked.opponent_utilities) >= 2
        THEN [update_concession_metrics(tracked) EXCEPT !.probing_phase_complete = TRUE]
        ELSE tracked

\* opponent_action keeping the latest of the bids of highest utility
opponent_action_bookkeeping_latest_best(agent, om, bid) ==
    LET our_utility == getUtility(bid)
        tracked ==
            [agent EXCEPT
                !.best_bid =
                    IF @ = NoBid \/ our_utility >= getUtility(@) THEN bid ELSE @,
                !.opponent_utilities = Append(@, get_predicted_utility(om, bid)),
                !.last_received_bid = bid]
    IN  IF Len(tracked.opponent_utilities) >= 5
        THEN [update_concession_metrics(tracked) EXCEPT !.probing_phase_complete = TRUE]
        ELSE tracked

\* opponent_action, lines 219-235, after the opponent model was updated
opponent_action_bookkeeping(agent, om, bid) ==
    LET our_utility == getUtility(bid)
        tracked ==
            [agent EXCEPT
                !.best_bid =
                    IF @ = NoBid \/ our_utility > getUtility(@) THEN bid ELSE @,
                !.opponent_utilities = Append(@, get_predicted_utility(om, bid)),
                !.last_received_bid = bid]
    IN  IF Len(tracked.opponent_utilities) >= 5
        THEN [update_concession_metrics(tracked) EXCEPT !.probing_phase_complete = TRUE]
        ELSE tracked

(***************************************************************************)
(* The opponent model on its own: a constructed model fed any offers.      *)
(***************************************************************************)
InitModel ==
    /\ domain \in Domains
    /\ profile \in ProfileTables
    /\ opponent_model = OpponentModel(domain)
    /\ crashed = FALSE
    /\ self = Group16Agent
    /\ files = <<>>
    /\ io_log = <<>>
    /\ now = 0
    /\ turn = "model"
    /\ last_move = NoMove

ModelUpdate(bid) ==
    /\ ~crashed
    /\ opponent_model.bid_count < MaxModelOffers
    /\ ~OpponentModel_update_raises(opponent_model)
    /\ opponent_model' = OpponentModel_update(opponent_model, bid, getUtility(bid))
    /\ UNCHANGED <<domain, profile, crashed, self, files, io_log, now, turn, last_move>>

ModelUpdateRaises(bid) ==
    /\ ~crashed
    /\ opponent_model.bid_count < MaxModelOffers
    /\ OpponentModel_update_raises(opponent_model)
    /\ opponent_model' = OpponentModel_update_partial(opponent_model, bid, getUtility(bid))
    /\ crashed' = TRUE
    /\ UNCHANGED <<domain, profile, self, files, io_log, now, turn, last_move>>

NextModel ==
    \E bid \in Bids(domain) : ModelUpdate(bid) \/ ModelUpdateRaises(bid)

SpecModel == InitModel /\ [][NextModel]_vars

(***************************************************************************)
(* A negotiation session of the agent.                                     *)
(***************************************************************************)
MaxPastSessions == 1

\* the instants the clock is read at (the reads of one turn fall in the same one)
TimeGrid == {0, 3000, 6000, 9600, Scale}

\* time() at the start of a turn: the wall clock has advanced since the turn before
TurnTimes == {t \in TimeGrid : now <= t /\ (self.last_time # NoValue => self.last_time < t)}

AgentDomains == {<<2, 2>>, <<2, 1>>}

OpponentName == "a"

\* records earlier sessions with the opponent left in its profile
PastRecords ==
    { SessionData(Scale, 0, FALSE, OpponentModel(<<2, 2>>)),
      SessionData(9600, 8500, TRUE, OpponentModel(<<2, 2>>)) }

RECURSIVE SeqsUpTo(_, _)
SeqsUpTo(S, n) ==
    IF n = 0 THEN {<<>>}
    ELSE SeqsUpTo(S, n - 1)
         \cup {Append(s, x) : s \in {t \in SeqsUpTo(S, n - 1) : Len(t) = n - 1}, x \in S}

\* the storage directory as earlier sessions left it
InitialStores ==
    {<<>>, WriteFile(<<>>, <<storage_dir>>, ReadOnlyDirectory)}
    \cup { WriteFile(<<>>, FilePath(storage_dir, OpponentName),
                     ToPickle(Opponent(OpponentName, sessions))) :
              sessions \in SeqsUpTo(PastRecords, MaxPastSessions) }

Init ==
    /\ domain \in AgentDomains
    /\ profile \in ProfileTables
    /\ opponent_model = NoModel
    /\ crashed = FALSE
    /\ self = Group16Agent
    /\ files \in InitialStores
    /\ io_log = <<>>
    /\ now = 0
    /\ turn \in {"opponent", "me"}
    /\ last_move = NoMove

\* the actor of the agent's own actions (self.me)
Me == "me"

\* the test of line 137 of notifyChange, without the actor check
ActionDone_is_processed_always(actor) == TRUE

\* line 137: the action of an ActionDone is processed unless it is our own
ActionDone_is_processed(actor) == actor # Me

OffersReceived == IF opponent_model = NoModel THEN 0 ELSE opponent_model.bid_count

ModelBeforeOffer == IF opponent_model = NoModel THEN OpponentModel(domain) ELSE opponent_model

\* notifyChange(ActionDone) with an Offer of the opponent: opponent_action
OpponentOffer(bid) ==
    /\ turn = "opponent"
    /\ OffersReceived < MaxOffers
    /\ ~OpponentModel_update_raises(ModelBeforeOffer)
    /\ opponent_model' = OpponentModel_update(ModelBeforeOffer, bid, getUtility(bid))
    /\ self' = opponent_action_bookkeeping([self EXCEPT !.other = OpponentName],
                                           opponent_model', bid)
    /\ turn' = "me"
    /\ UNCHANGED <<domain, profile, crashed, files, io_log, now, last_move>>

\* the same message when the update of the opponent model raises
OpponentOfferRaises(bid) ==
    /\ turn = "opponent"
    /\ OffersReceived < MaxOffers
    /\ OpponentModel_update_raises(ModelBeforeOffer)
    /\ opponent_model' = OpponentModel_update_partial(ModelBeforeOffer, bid, getUtility(bid))
    /\ self' = [self EXCEPT !.other = OpponentName]
    /\ crashed' = TRUE
    /\ turn' = "crashed"
    /\ UNCHANGED <<domain, profile, files, io_log, now, last_move>>

\* notifyChange(ActionDone) with an Accept of the opponent
OpponentAccept ==
    /\ turn = "opponent"
    /\ last_move.action = "Offer"
    /\ self' = [self EXCEPT !.other = OpponentName]
    /\ turn' = "agreed_own_offer"
    /\ UNCHANGED <<domain, profile, opponent_model, crashed, files, io_log, now, last_move>>

\* the deadline passes or the opponent walks away
NoAgreement ==
    /\ turn \in {"opponent", "me"}
    /\ turn' = "no_agreement"
    /\ UNCHANGED <<domain, profile, opponent_model, crashed, self, files, io_log, now,
                   last_move>>

\* the agent after lines 242-251 of my_turn
MyTurnTimed(current_time) ==
    [my_turn_timing(self, current_time) EXCEPT !.round_count = @ + 1]

\* my_turn learning from the loaded profile even when it has no session
MyTurnPrepared_learns_from_empty(current_time) ==
    LET timed == MyTurnTimed(current_time)
        loads == my_turn_loads(timed)
        got == get_opponent_data(files, storage_dir, timed.other)
        learns == loads /\ opponent_model # NoModel
        om == IF learns THEN learn_from_past_sessions(opponent_model, got.opponent.sessions)
              ELSE opponent_model
        loaded ==
            IF loads
            THEN [timed EXCEPT
                    !.opponent = got.opponent,
                    !.got_opponent = TRUE,
                    !.force_accept_at_remaining_turns =
                        IF learns THEN om.force_accept_at_remaining_turns ELSE @,
                    !.force_accept_at_remaining_turns_light =
                        IF learns THEN om.force_accept_at_remaining_turns_light ELSE @,
                    !.top_bids_percentage =
                        IF learns THEN om.top_bids_percentage ELSE @]
            ELSE timed
    IN  [ agent |-> [loaded EXCEPT
                        !.best_bid = accept_condition_best_bid(loaded, loaded.last_received_bid)],
          model |-> om,
          files |-> IF loads THEN got.files ELSE files,
          io_log |-> IF loads
                     THEN Append(io_log, [op |-> "load", name |-> timed.other,
                                          session |-> <<>>])
                     ELSE io_log ]

\* the agent after lines 242-264 of my_turn, the model and the files with it
MyTurnPrepared(current_time) ==
    LET timed == MyTurnTimed(current_time)
        loads == my_turn_loads(timed)
        got == get_opponent_data(files, storage_dir, timed.other)
        learns == loads /\ opponent_model # NoModel /\ got.opponent.sessions # <<>>
        om == IF learns THEN learn_from_past_sessions(opponent_model, got.opponent.sessions)
              ELSE opponent_model
        loaded ==
            IF loads
            THEN [timed EXCEPT
                    !.opponent = got.opponent,
                    !.got_opponent = TRUE,
                    !.force_accept_at_remaining_turns =
                        IF learns THEN om.force_accept_at_remaining_turns ELSE @,
                    !.force_accept_at_remaining_turns_light =
                        IF learns THEN om.force_accept_at_remaining_turns_light ELSE @,
                    !.top_bids_percentage =
                        IF learns THEN om.top_bids_percentage ELSE @]
            ELSE timed
    IN  [ agent |-> [loaded EXCEPT
                        !.best_bid = accept_condition_best_bid(loaded, loaded.last_received_bid)],
          model |-> om,
          files |-> IF loads THEN got.files ELSE files,
          io_log |-> IF loads
                     THEN Append(io_log, [op |-> "load", name |-> timed.other,
                                          session |-> <<>>])
                     ELSE io_log ]

\* get_opponent_data raises in a turn at current_time
MyTurnLoadRaises(current_time) ==
    /\ my_turn_loads(MyTurnTimed(current_time))
    /\ get_opponent_data_raises(files, storage_dir, self.other)

\* notifyChange(YourTurn): my_turn raises at line 255 and sends no action
MyTurnRaises(current_time) ==
    /\ turn = "me"
    /\ current_time \in TurnTimes
    /\ MyTurnLoadRaises(current_time)
    /\ self' = MyTurnTimed(current_time)
    /\ now' = current_time
    /\ crashed' = TRUE
    /\ turn' = "crashed"
    /\ UNCHANGED <<domain, profile, opponent_model, files, io_log, last_move>>

\* notifyChange(YourTurn): my_turn accepts the last received bid
MyTurnAccept(progress) ==
    /\ turn = "me"
    /\ progress \in TurnTimes
    /\ ~MyTurnLoadRaises(progress)
    /\ LET prepared == MyTurnPrepared(progress)
       IN  /\ accept_condition(prepared.agent, prepared.agent.last_received_bid, progress)
           /\ self' = [prepared.agent EXCEPT !.did_accept = TRUE]
           /\ opponent_model' = prepared.model
           /\ files' = prepared.files
           /\ io_log' = prepared.io_log
           /\ last_move' = [ action |-> "Accept",
                             bid |-> prepared.agent.last_received_bid,
                             progress |-> progress,
                             target |-> calculate_target_utility(prepared.agent, progress),
                             via |-> "accept_condition" ]
    /\ now' = progress
    /\ turn' = "sent_accept"
    /\ UNCHANGED <<domain, profile, crashed>>

\* notifyChange(YourTurn): my_turn sends the bid find_bid returns
MyTurnOffer(progress) ==
    /\ turn = "me"
    /\ progress \in TurnTimes
    /\ ~MyTurnLoadRaises(progress)
    /\ LET prepared == MyTurnPrepared(progress)
       IN  /\ ~accept_condition(prepared.agent, prepared.agent.last_received_bid, progress)
           /\ \E found \in find_bid(prepared.agent, progress) :
                /\ self' = [prepared.agent EXCEPT
                               !.bids_with_utilities =
                                   IF found.via = "best_bid" THEN @
                                   ELSE bids_with_utilities_after(prepared.agent)]
                /\ last_move' = [ action |-> "Offer",
                                  bid |-> found.bid,
                                  progress |-> progress,
                                  target |-> found.target,
                                  via |-> found.via ]
           /\ opponent_model' = prepared.model
           /\ files' = prepared.files
           /\ io_log' = prepared.io_log
    /\ now' = progress
    /\ turn' = "sent_offer"
    /\ UNCHANGED <<domain, profile, crashed>>

\* notifyChange(ActionDone) with the action the agent sent itself: line 137
\* lets only the actions of another actor through to lines 139-142
OwnActionDone ==
    /\ turn \in {"sent_offer", "sent_accept"}
    /\ IF ActionDone_is_processed(Me)
       THEN IF last_move.action = "Offer"
            THEN /\ opponent_model' =
                      IF OpponentModel_update_raises(ModelBeforeOffer)
                      THEN OpponentModel_update_partial(ModelBeforeOffer, last_move.bid,
                                                        getUtility(last_move.bid))
                      ELSE OpponentModel_update(ModelBeforeOffer, last_move.bid,
                                                getUtility(last_move.bid))
                 /\ self' = IF OpponentModel_update_raises(ModelBeforeOffer)
                            THEN [self EXCEPT !.other = Me]
                            ELSE opponent_action_bookkeeping([self EXCEPT !.other = Me],
                                                             opponent_model', last_move.bid)
            ELSE /\ self' = [self EXCEPT !.other = Me]
                 /\ UNCHANGED opponent_model
       ELSE UNCHANGED <<self, opponent_model>>
    /\ turn' = IF turn = "sent_offer" THEN "opponent" ELSE "agreed_their_offer"
    /\ UNCHANGED <<domain, profile, crashed, files, io_log, now, last_move>>

\* the bid of the agreement a Finished message carries, or NoBid
AgreedBid ==
    IF turn = "agreed_own_offer" THEN last_move.bid
    ELSE IF turn = "agreed_their_offer" THEN self.last_received_bid
    ELSE NoBid

\* notifyChange(Finished): the utility of the agreement, save_data, terminate
Finished(progress) ==
    /\ turn \in {"agreed_own_offer", "agreed_their_offer", "no_agreement"}
    /\ now <= progress
    /\ ~WriteFails(files, storage_dir)
    /\ LET utility_at_finish == IF AgreedBid # NoBid THEN getUtility(AgreedBid) ELSE 0
           saves == self.other # "" /\ self.opponent # NoOpponent
           saved == create_and_save_session_data(files, self.opponent, storage_dir, progress,
                                                 utility_at_finish, self.did_accept,
                                                 opponent_model)
       IN  /\ self' = [self EXCEPT
                          !.utility_at_finish = utility_at_finish,
                          !.opponent = IF saves THEN saved.opponent ELSE @,
                          !.got_opponent = FALSE]
           /\ files' = WriteFile(IF saves THEN saved.files ELSE files,
                                 <<storage_dir, "/data.md">>, [class |-> "text"])
           /\ io_log' = IF saves
                        THEN Append(io_log,
                                    [op |-> "save", name |-> self.opponent.name,
                                     session |-> saved.opponent.sessions[
                                                     Len(saved.opponent.sessions)]])
                        ELSE io_log
    /\ now' = progress
    /\ turn' = "terminated"
    /\ UNCHANGED <<domain, profile, opponent_model, crashed, last_move>>

\* notifyChange(Finished) when the storage is not writable: pd.to_pickle (line
\* 54 of wrapper.py) or open (line 301) raises before terminate is called
FinishedRaises ==
    /\ turn \in {"agreed_own_offer", "agreed_their_offer", "no_agreement"}
    /\ WriteFails(files, storage_dir)
    /\ self' = [self EXCEPT
                   !.utility_at_finish = IF AgreedBid # NoBid THEN getUtility(AgreedBid) ELSE 0]
    /\ crashed' = TRUE
    /\ turn' = "crashed"
    /\ UNCHANGED <<domain, profile, opponent_model, files, io_log, now, last_move>>

Next ==
    \/ \E bid \in Bids(domain) : OpponentOffer(bid)
    \/ \E bid \in Bids(domain) : OpponentOfferRaises(bid)
    \/ OpponentAccept
    \/ NoAgreement
    \/ \E p \in TimeGrid : MyTurnAccept(p)
    \/ \E p \in TimeGrid : MyTurnOffer(p)
    \/ OwnActionDone
    \/ \E t \in TimeGrid : MyTurnRaises(t)
    \/ FinishedRaises
    \/ \E p \in {now, Scale} : Finished(p)

Spec == Init /\ [][Next]_vars

(***************************************************************************)
(* learn_from_past_sessions applied to any list of session records.        *)
(***************************************************************************)
SessionSamples ==
    { SessionData(Scale, u, d, OpponentModel(<<2, 2>>)) :
        u \in {0, 3000, 5000, 8500}, d \in BOOLEAN }

InitLearn ==
    /\ domain = <<2, 2>>
    /\ profile \in ProfileTables
    /\ opponent_model = OpponentModel(domain)
    /\ crashed = FALSE
    /\ \E sessions \in SeqsUpTo(SessionSamples, MaxSessions) :
          self = [Group16Agent EXCEPT !.opponent = Opponent(OpponentName, sessions)]
    /\ files = <<>>
    /\ io_log = <<>>
    /\ now = 0
    /\ turn = "learn"
    /\ last_move = NoMove

Learn ==
    /\ turn = "learn"
    /\ opponent_model' = learn_from_past_sessions(opponent_model, self.opponent.sessions)
    /\ turn' = "learned"
    /\ UNCHANGED <<domain, profile, crashed, self, files, io_log, now, last_move>>

SpecLearn == InitLearn /\ [][Learn]_vars

(***************************************************************************)
(* The store on its own: profiles are loaded, extended by a session record *)
(* and saved, as the agent does once per session.                          *)
(***************************************************************************)
StoreNames == {"a", "b"}

InitStore ==
    /\ domain = <<2, 2>>
    /\ profile \in ProfileTables
    /\ opponent_model = NoModel
    /\ crashed = FALSE
    /\ self = Group16Agent
    /\ files \in {<<>>, WriteFile(<<>>, FilePath(storage_dir, "a"), CorruptFile)}
    /\ io_log = <<>>
    /\ now = 0
    /\ turn = "store"
    /\ last_move = NoMove

StoreGet(name) ==
    /\ turn = "store"
    /\ Len(io_log) < MaxStoreOps
    /\ LET got == get_opponent_data(files, storage_dir, name)
       IN  /\ self' = [self EXCEPT !.opponent = got.opponent, !.other = name]
           /\ files' = got.files
    /\ io_log' = Append(io_log, [op |-> "load", name |-> name, session |-> <<>>])
    /\ UNCHANGED <<domain, profile, opponent_model, crashed, now, turn, last_move>>

StoreSave(utility_at_finish, did_accept) ==
    /\ turn = "store"
    /\ Len(io_log) < MaxStoreOps
    /\ self.opponent # NoOpponent
    /\ LET saved == create_and_save_session_data(files, self.opponent, storage_dir, Scale,
                                                 utility_at_finish, did_accept,
                                                 opponent_model)
       IN  /\ self' = [self EXCEPT !.opponent = saved.opponent]
           /\ files' = saved.files
           /\ io_log' = Append(io_log,
                               [op |-> "save", name |-> self.opponent.name,
                                session |-> saved.opponent.sessions[
                                                Len(saved.opponent.sessions)]])
    /\ UNCHANGED <<domain, profile, opponent_model, crashed, now, turn, last_move>>

NextStore ==
    \/ \E name \in StoreNames : StoreGet(name)
    \/ \E u \in {0, 8500}, d \in BOOLEAN : StoreSave(u, d)

SpecStore == InitStore /\ [][NextStore]_vars

(***************************************************************************)
(* calculate_target_utility on its own: any signals of the opponent and    *)
(* any progress.                                                           *)
(***************************************************************************)
VarianceSamples == {0, 99, 100, 200, 300, 301, 2500}

ConcessionSamples == {0, 199, 200, 400, 500, 501, 3000}

ProgressSamples == {0, 1, 2500, 5000, 7500, 9000, 9500, 9999, Scale}

InitTarget ==
    /\ domain = <<2, 2>>
    /\ profile \in ProfileTables
    /\ opponent_model = NoModel
    /\ crashed = FALSE
    /\ \E v \in VarianceSamples, c \in ConcessionSamples :
          self = [Group16Agent EXCEPT !.opponent_utility_variance = v, !.concession_rate = c]
    /\ files = <<>>
    /\ io_log = <<>>
    /\ now = 0
    /\ turn = "target"
    /\ last_move = NoMove

\* one call of calculate_target_utility
Target(progress) ==
    /\ turn = "target"
    /\ last_move' = [ action |-> "target", progress |-> progress,
                      target |-> calculate_target_utility(self, progress) ]
    /\ now' = progress
    /\ turn' = "targeted"
    /\ UNCHANGED <<domain, profile, opponent_model, crashed, self, files, io_log>>

NextTarget == \E progress \in ProgressSamples : Target(progress)

SpecTarget == InitTarget /\ [][NextTarget]_vars

(***************************************************************************)
(* find_bid on its own: one call in any agent state, also in a domain with *)
(* more bids than the search keeps.                                        *)
(***************************************************************************)
LargeDomain == <<11, 11>>

BidDomains == {<<2, 2>>, LargeDomain}

\* own utilities of the bids of LargeDomain: all different; all above every
\* target, with ties; all below every target
LargeProfiles ==
    { [i \in 1..121 |-> Scale - 50 * (i - 1)],
      [i \in 1..121 |-> 9500 + 50 * ((i * 7) % 11)],
      [i \in 1..121 |-> 3000 + 10 * ((i * 5) % 121)] }

\* own utilities of a small domain whose best bid, 0.92, is below the target
\* of the first turns and above the target of the fourth turn
ProbingProfiles == { <<9200, 5000, 8500, 2000>> }

InitBids ==
    /\ domain \in BidDomains
    /\ profile \in (IF domain = LargeDomain THEN LargeProfiles
                    ELSE ProfileTables \cup ProbingProfiles)
    /\ opponent_model = NoModel
    /\ crashed = FALSE
    /\ \E round_count \in {1, 4, 5, 6}, best \in {0, 2}, top \in {33, 100, 333} :
          self = [Group16Agent EXCEPT
                     !.round_count = round_count,
                     !.best_bid = IF best = 0 THEN NoBid ELSE BidAt(domain, best),
                     !.last_received_bid = IF best = 0 THEN NoBid ELSE BidAt(domain, best),
                     !.top_bids_percentage = top]
    /\ files = <<>>
    /\ io_log = <<>>
    /\ now \in {0, 5000, 9600, Scale}
    /\ turn = "find_bid"
    /\ last_move = NoMove

\* one call of find_bid at progress now
FindBid ==
    /\ turn = "find_bid"
    /\ \E built \in {bids_with_utilities_after(self)} :
         \E found \in find_bid(self, now) :
          /\ self' = [self EXCEPT
                         !.bids_with_utilities =
                             IF found.via = "best_bid" THEN @ ELSE built]
          /\ last_move' = [ action |-> "Offer",
                            bid |-> found.bid,
                            progress |-> now,
                            target |-> found.target,
                            via |-> found.via ]
    /\ turn' = "found"
    /\ UNCHANGED <<domain, profile, opponent_model, crashed, files, io_log, now>>

SpecBids == InitBids /\ [][FindBid]_vars

(***************************************************************************)
(* Properties of the opponent model.                                       *)
(***************************************************************************)
HasModel == opponent_model # NoModel

Estimators == IF HasModel THEN opponent_model.issue_estimators ELSE <<>>

LastOffer == opponent_model.offers[Len(opponent_model.offers)]

\* C4: after a non-empty sequence of completed updates the predicted utility of
\* every bid of the domain is in [0,1]; every issue weight and every value
\* utility is in [0,1].
C4_PredictedUtilityInUnitInterval ==
    (HasModel /\ ~crashed /\ Len(opponent_model.offers) >= 1) =>
        /\ \A b \in Bids(domain) :
              /\ get_predicted_utility(opponent_model, b) >= 0
              /\ get_predicted_utility(opponent_model, b) <= Scale
        /\ \A i \in DOMAIN Estimators :
              /\ Estimators[i].weight >= 0
              /\ Estimators[i].weight <= Scale
              /\ \A v \in DOMAIN Estimators[i].value_trackers :
                    /\ Estimators[i].value_trackers[v].utility >= 0
                    /\ Estimators[i].value_trackers[v].utility <= Scale

\* C4 witness: several offers were made and some bid of the domain has a
\* predicted utility strictly between 0 and 1.
C4_Witness ==
    /\ HasModel /\ ~crashed
    /\ Len(opponent_model.offers) >= 3
    /\ \E b \in Bids(domain) :
          /\ get_predicted_utility(opponent_model, b) > 0
          /\ get_predicted_utility(opponent_model, b) < Scale

OwnUtilities == [i \in 1..Len(opponent_model.offers) |-> getUtility(opponent_model.offers[i])]

\* C5: after N >= 1 updates best_bid_for_us is the earliest offer of maximal own
\* utility and best_bid_utility is that maximum.
C5_BestBidIsFirstMaximum ==
    (HasModel /\ opponent_model.bid_count >= 1) =>
        LET us == OwnUtilities
            first == CHOOSE i \in 1..Len(us) :
                        /\ \A j \in 1..Len(us) : us[j] <= us[i]
                        /\ \A j \in 1..(i - 1) : us[j] < us[i]
        IN  /\ opponent_model.best_bid_for_us = opponent_model.offers[first]
            /\ opponent_model.best_bid_utility = us[first]

\* C5 witness: a later offer of a different bid ties with the best bid and did
\* not replace it.
C5_Witness ==
    /\ HasModel
    /\ \E i, j \in 1..Len(opponent_model.offers) :
          /\ i < j
          /\ opponent_model.offers[i] # opponent_model.offers[j]
          /\ OwnUtilities[i] = OwnUtilities[j]
          /\ OwnUtilities[i] = opponent_model.best_bid_utility
          /\ opponent_model.best_bid_for_us = opponent_model.offers[i]

\* C6 as stated: the weight of an issue with at least 2 values is 0 right after
\* the first update of its estimator.
C6_WeightZeroAfterFirstUpdate ==
    \A i \in DOMAIN Estimators :
        (Estimators[i].bids_received = 1 /\ Estimators[i].num_values >= 2 /\ ~crashed)
            => Estimators[i].weight = 0

\* C6 amended: the weight of an issue with at least 2 values is 1 right after
\* the first update of its estimator.
C6_WeightOneAfterFirstUpdate ==
    \A i \in DOMAIN Estimators :
        (Estimators[i].bids_received = 1 /\ Estimators[i].num_values >= 2 /\ ~crashed)
            => Estimators[i].weight = Scale

\* C6 witness: the first update of an estimator with at least 2 values is done.
C6_Witness ==
    /\ ~crashed
    /\ \E i \in DOMAIN Estimators :
          /\ Estimators[i].bids_received = 1
          /\ Estimators[i].num_values >= 3
          /\ Estimators[i].max_value_count = 1

\* C7: an observation that repeats the currently most frequent value of an issue
\* with at least 2 values leaves the weight no smaller than before, and at most 1.
C7_RepeatNeverLowersWeight ==
    [][ (HasModel /\ opponent_model' # NoModel /\ ~crashed') =>
          \A i \in DOMAIN Estimators :
              LET before == Estimators[i]
                  after == opponent_model'.issue_estimators[i]
                  value == opponent_model'.offers[Len(opponent_model'.offers)][i]
              IN  ( /\ after.bids_received = before.bids_received + 1
                    /\ before.num_values >= 2
                    /\ value \in DOMAIN before.value_trackers
                    /\ before.value_trackers[value].count = before.max_value_count )
                  => (after.weight >= before.weight /\ after.weight <= Scale) ]_vars

\* C7 witness: the offer just made repeated the most frequent value of an issue
\* on which another value was seen too, and the weight is between 0 and 1.
C7_Witness ==
    /\ HasModel /\ ~crashed
    /\ \E i \in DOMAIN Estimators :
          /\ Estimators[i].num_values >= 2
          /\ Estimators[i].bids_received >= 3
          /\ Cardinality(DOMAIN Estimators[i].value_trackers) >= 2
          /\ Estimators[i].value_trackers[LastOffer[i]].count = Estimators[i].max_value_count
          /\ Estimators[i].max_value_count >= 3
          /\ Estimators[i].weight > 0
          /\ Estimators[i].weight < Scale

UniqueBids == Cardinality(DOMAIN opponent_model.repeated_bids)

InTurn(t) == MyTurnPrepared(t).agent

ReceivedUtility == getUtility(self.last_received_bid)

\* calculate_target_utility takes the high-concession branch
Yielding(agent) ==
    /\ ~(agent.opponent_utility_variance < 100 \/ agent.concession_rate < 200)
    /\ (agent.opponent_utility_variance > 300 \/ agent.concession_rate > 500)

\* C1 as stated: at progress 1.0 a last received bid of own utility 0.75 is
\* accepted in every reachable state of the agent.
C1_AcceptsAtDeadline ==
    (turn = "me" /\ self.last_received_bid # NoBid /\ ReceivedUtility = 7500
     /\ Scale \in TurnTimes) =>
        accept_condition(InTurn(Scale), self.last_received_bid, Scale)

\* C1 amended: at progress 1.0 a last received bid of own utility 0.75 is
\* accepted whenever one of the two deadline thresholds is below 1.0 or the
\* opponent is not in the high-concession branch (target at most 0.75).
C1_AcceptsAtDeadlineUnlessKnobsZero ==
    (turn = "me" /\ self.last_received_bid # NoBid /\ ReceivedUtility = 7500
     /\ Scale \in TurnTimes
     /\ (threshold(InTurn(Scale)) < Scale \/ light_threshold(InTurn(Scale)) < Scale
         \/ ~Yielding(InTurn(Scale)))) =>
        accept_condition(InTurn(Scale), self.last_received_bid, Scale)

\* C1 witness: it is the agent's turn, the last received bid is worth 0.75, the
\* opponent is in the high-concession branch (target 0.79 at the deadline), the
\* hard threshold is 1.0 and only the soft threshold lets the bid be accepted.
C1_Witness ==
    /\ turn = "me" /\ self.last_received_bid # NoBid /\ ReceivedUtility = 7500
    /\ Scale \in TurnTimes
    /\ Yielding(InTurn(Scale))
    /\ calculate_target_utility(InTurn(Scale), Scale) > 7500
    /\ threshold(InTurn(Scale)) = Scale
    /\ light_threshold(InTurn(Scale)) < Scale
    /\ accept_condition(InTurn(Scale), self.last_received_bid, Scale)

\* C2 as stated: a bid returned by find_bid has own utility at least the target
\* of that call, unless the fallback was taken.
C2_OfferMeetsTarget ==
    (last_move.action = "Offer" /\ last_move.via # "fallback") =>
        getUtility(last_move.bid) >= last_move.target

\* C2 amended: a bid returned by find_bid has own utility at least the target of
\* that call, unless the fallback was taken because no bid of the domain meets
\* the target, or progress is past the soft threshold and the best received bid,
\* of own utility at least target - 0.1, is offered again.
C2_OfferMeetsTargetOrReoffers ==
    (last_move.action = "Offer") =>
        /\ last_move.via = "eligible" => getUtility(last_move.bid) >= last_move.target
        /\ last_move.via = "fallback" =>
              \A b \in Bids(domain) : getUtility(b) < last_move.target
        /\ last_move.via = "best_bid" =>
              /\ \E i \in 1..Len(opponent_model.offers) :
                    opponent_model.offers[i] = last_move.bid
              /\ \A i \in 1..Len(opponent_model.offers) :
                    (turn \in {"sent_offer", "opponent"}) =>
                        getUtility(opponent_model.offers[i]) <= getUtility(last_move.bid)
              /\ getUtility(last_move.bid) >= last_move.target - 1000
              /\ last_move.progress > light_threshold(self)

\* C2 witness: the best received bid was offered again below the target.
C2_Witness ==
    /\ last_move.action = "Offer"
    /\ last_move.via = "best_bid"
    /\ getUtility(last_move.bid) < last_move.target

ProgressGrid == {0, 2500, 5000, 7500, 9000, 9500, 9800, 9900, Scale}

\* C3: for a fixed bid and a fixed agent state, acceptance at a progress implies
\* acceptance at every later progress up to 1.
C3_AcceptanceMonotonicInProgress ==
    ~crashed =>
        \A bid \in Bids(domain) :
            LET accepted == {p \in ProgressGrid : accept_condition(self, bid, p)}
            IN  \A p1 \in accepted :
                    \A p2 \in ProgressGrid : p1 < p2 => p2 \in accepted

\* C3 witness: the opponent model has signals, some bid is refused at progress 0
\* and accepted from a progress below the deadline thresholds on.
C3_Witness ==
    /\ ~crashed
    /\ Len(self.opponent_utilities) >= 5
    /\ self.avg_time_per_round # NoValue
    /\ \E bid \in Bids(domain) :
          /\ ~accept_condition(self, bid, 0)
          /\ \E p \in ProgressGrid :
                /\ p < light_threshold(self) /\ p < threshold(self)
                /\ accept_condition(self, bid, p)

(***************************************************************************)
(* Properties of learn_from_past_sessions.                                 *)
(***************************************************************************)
Min(a, b) == IF a < b THEN a ELSE b

LoadedSessions == self.opponent.sessions

\* F and L of the loaded history
FailedCount ==
    Cardinality({i \in 1..Len(LoadedSessions) : LoadedSessions[i].utilityAtFinish = 0})

LowCount ==
    Cardinality({i \in 1..Len(LoadedSessions) : LoadedSessions[i].utilityAtFinish < 5000})

\* C8: the three knobs are the table entries at min(F,3), min(F,2) and min(L,2),
\* where F counts the sessions of utility 0 and L those of utility below 0.5.
C8_LearnedKnobsFromCounts ==
    (turn = "learned") =>
        /\ opponent_model.force_accept_at_remaining_turns
              = <<0, 0, 10000, 11000>>[Min(FailedCount, 3) + 1]
        /\ opponent_model.force_accept_at_remaining_turns_light
              = <<0, 10000, 11000>>[Min(FailedCount, 2) + 1]
        /\ opponent_model.top_bids_percentage = <<33, 100, 333>>[Min(LowCount, 2) + 1]
        /\ (FailedCount = 0 /\ LowCount = 0) =>
              /\ opponent_model.force_accept_at_remaining_turns = 0
              /\ opponent_model.force_accept_at_remaining_turns_light = 0
              /\ opponent_model.top_bids_percentage = 33
        /\ (FailedCount >= 3 /\ LowCount >= 3) =>
              /\ opponent_model.force_accept_at_remaining_turns = 11000
              /\ opponent_model.force_accept_at_remaining_turns_light = 11000
              /\ opponent_model.top_bids_percentage = 333

\* C8 witness: learning was applied to a history with three failed sessions, in
\* which a good session comes between failed ones, and the knobs are saturated.
C8_Witness ==
    /\ turn = "learned"
    /\ FailedCount >= 3
    /\ opponent_model.force_accept_at_remaining_turns = 11000
    /\ opponent_model.top_bids_percentage = 333
    /\ \E i, j, k \in 1..Len(LoadedSessions) :
          /\ i < j /\ j < k
          /\ LoadedSessions[i].utilityAtFinish = 0
          /\ LoadedSessions[j].utilityAtFinish >= 5000
          /\ LoadedSessions[k].utilityAtFinish = 0

(***************************************************************************)
(* Properties of the store.                                                *)
(***************************************************************************)
\* the session records saved under a name, in order
SavedSessions(name) ==
    LET saves == SelectSeq(io_log, LAMBDA e : e.op = "save" /\ e.name = name)
    IN  [i \in 1..Len(saves) |-> saves[i].session]

LastIo == io_log[Len(io_log)]

\* C10: a load of a name never seen returns, without raising, a profile of that
\* name with no sessions; a load after saves returns exactly the saved records.
C10_StoreRoundTrip ==
    (turn = "store" /\ io_log # <<>> /\ LastIo.op = "load") =>
        /\ ~crashed
        /\ self.opponent # NoOpponent
        /\ self.opponent.name = LastIo.name
        /\ self.opponent.sessions = SavedSessions(LastIo.name)

\* C10 witness: a name was loaded from a store without its file, one record was
\* saved, and the next load returned exactly that record.
C10_Witness ==
    /\ turn = "store"
    /\ Len(io_log) = 3
    /\ io_log[1].op = "load" /\ io_log[2].op = "save" /\ io_log[3].op = "load"
    /\ io_log[1].name = io_log[3].name
    /\ self.opponent.sessions = <<io_log[2].session>>

(***************************************************************************)
(* Properties of the session's persistence.                                *)
(***************************************************************************)
Saves == SelectSeq(io_log, LAMBDA e : e.op = "save")

Loads == SelectSeq(io_log, LAMBDA e : e.op = "load")

\* C11: when a session in which the opponent acted has finished, exactly one
\* session record, carrying the session's utility_at_finish and did_accept, was
\* appended to that opponent's stored profile.
C11_FinishedAppendsOneRecord ==
    (turn = "terminated" /\ self.other # "") =>
        /\ Len(Saves) = 1
        /\ Saves[1].name = self.other
        /\ Saves[1].session.utilityAtFinish = self.utility_at_finish
        /\ Saves[1].session.didAccept = self.did_accept
        /\ ~ReadFails(files, FilePath(storage_dir, self.other))
        /\ LET stored == files[FilePath(storage_dir, self.other)].state.sessions
           IN  stored # <<>> /\ stored[Len(stored)] = Saves[1].session

(***************************************************************************)
(* Properties of the error handling.                                       *)
(***************************************************************************)
\* C12: IssueEstimator.update never fails with a division by zero: no update of
\* the model raises, and an estimator whose bids_received equals its equal
\* share (an issue with one value) keeps its previous weight, 0.
C12_UpdateNeverDividesByZero ==
    HasModel =>
        /\ ~crashed
        /\ \A i \in DOMAIN Estimators :
              (Estimators[i].num_values = 1) => Estimators[i].weight = 0

\* C13: an absent bid is rejected by accept_condition at every progress, in
\* the agent's state as it is and as a turn at any time would prepare it; so the
\* action of a turn taken before the first offer of the opponent is an Offer.
C13_AbsentBidNeverAccepted ==
    /\ \A p \in ProgressGrid : ~accept_condition(self, NoBid, p)
    /\ (turn = "me" /\ self.last_received_bid = NoBid) =>
          \A t \in TurnTimes : ~accept_condition(InTurn(t), InTurn(t).last_received_bid, t)
    /\ (OffersReceived = 0 /\ last_move.action # "none") => last_move.action = "Offer"

\* C13 witness: the agent moved first, at the deadline, and sent an Offer.
C13_Witness ==
    /\ OffersReceived = 0
    /\ self.last_received_bid = NoBid
    /\ last_move.action = "Offer"
    /\ last_move.progress = Scale
    /\ last_move.progress > threshold(self)

(***************************************************************************)
(* Properties of one call of find_bid.                                     *)
(***************************************************************************)
SearchList == bids_with_utilities_after(self)

SearchTarget == find_bid_target(self, now)

\* E: the number of bids of the domain that meet the target
MeetingTarget ==
    Cardinality({index \in 0..(DomainSize(domain) - 1) : profile[index + 1] >= SearchTarget})

\* min(max(5, floor(size * pct)), size) with
\* pct = max(0.01, min(0.2, top_bids_percentage + 0.19 * progress))
WindowBound ==
    LET sum == self.top_bids_percentage + RoundDiv(19 * now, 100)
        pct == IF sum > 2000 THEN 2000 ELSE IF sum < 100 THEN 100 ELSE sum
        floored == (DomainSize(domain) * pct) \div Scale
        widened == IF floored > 5 THEN floored ELSE 5
    IN  IF widened < DomainSize(domain) THEN widened ELSE DomainSize(domain)

C15_PersistenceFailureNotFatal ==
    (WriteFails(files, storage_dir) /\ \A i \in DOMAIN domain : domain[i] >= 2) =>
        ~crashed

(***************************************************************************)
(* Properties of calculate_target_utility.                                 *)
(***************************************************************************)
\* C16: the adjusted umin is within [0.65, 0.85]; the target of every progress
\* is between the adjusted umin and umax = 0.95; for fixed signals the target
\* is non-increasing in progress.
C16_TargetWithinBoundsAndNonIncreasing ==
    /\ adjusted_umin(self) >= 6500 /\ adjusted_umin(self) <= 8500
    /\ \A p \in ProgressSamples :
          /\ calculate_target_utility(self, p) >= adjusted_umin(self)
          /\ calculate_target_utility(self, p) <= 9500
          /\ \A q \in ProgressSamples :
                p < q => calculate_target_utility(self, q) <= calculate_target_utility(self, p)
    /\ (turn = "targeted") =>
          /\ last_move.target >= adjusted_umin(self)
          /\ last_move.target <= 9500

\* C16 witness: against an opponent of low concession the target at the
\* deadline is the adjusted umin 0.65, the formula's value being below it.
C16_Witness ==
    /\ turn = "targeted"
    /\ last_move.progress = Scale
    /\ concession_behaviour(self) = "low"
    /\ raw_target_utility(self, Scale) < adjusted_umin(self)
    /\ last_move.target = 6500

(***************************************************************************)
(* Properties of the concession rate.                                      *)
(***************************************************************************)
\* the strictly positive drops between consecutive samples, in order
PositiveDrops(samples) ==
    SelectSeq([i \in 1..(Len(samples) - 1) |-> samples[i] - samples[i + 1]],
              LAMBDA d : d > 0)

MeanOrZero(numbers) ==
    IF numbers = <<>> THEN 0 ELSE RoundDiv(SeqSum(numbers), Len(numbers))

\* C17: every update that returns appends one sample, the predicted utility of
\* the offer under the estimators as the update leaves them, and no update,
\* returning or raising, changes an earlier sample; afterwards concession_rate
\* is the mean of the strictly positive drops between consecutive samples of
\* the whole history, 0 if none.
C17_ConcessionRateIsMeanOfDrops ==
    [][ (HasModel /\ opponent_model' # NoModel
         /\ opponent_model'.bid_count = opponent_model.bid_count + 1) =>
           LET before == opponent_model.opponent_utilities
               after == opponent_model'.opponent_utilities
               offer == opponent_model'.offers[Len(opponent_model'.offers)]
           IN  /\ ~crashed' => Len(after) = Len(before) + 1
               /\ SubSeq(after, 1, Len(before)) = before
               /\ after # before =>
                     /\ Len(after) = Len(before) + 1
                     /\ after[Len(after)] = get_predicted_utility(opponent_model', offer)
               /\ opponent_model'.concession_rate = MeanOrZero(PositiveDrops(after))
      ]_vars

\* C17 witness: a history with a rise and two drops of different size.
C17_Witness ==
    /\ HasModel /\ ~crashed
    /\ Len(PositiveDrops(opponent_model.opponent_utilities)) >= 2
    /\ Len(PositiveDrops(opponent_model.opponent_utilities))
          < Len(opponent_model.opponent_utilities) - 1
    /\ \E i, j \in 1..Len(PositiveDrops(opponent_model.opponent_utilities)) :
          PositiveDrops(opponent_model.opponent_utilities)[i]
              # PositiveDrops(opponent_model.opponent_utilities)[j]
    /\ opponent_model.concession_rate > 0

(***************************************************************************)
(* Properties of the persistence I/O of one session.                       *)
(***************************************************************************)
\* C18: a session loads the profile at most once, in the first turn of the
\* agent in which the name of the opponent is known, and saves it at most
\* once, when Finished is handled; no other turn and no received offer loads
\* or saves.
C18_LoadAndSaveAtMostOnce ==
    [][ /\ Len(Loads') <= 1
        /\ Len(Saves') <= 1
        /\ Loads' # Loads =>
              turn = "me" /\ self.other # "" /\ ~self.got_opponent /\ Loads = <<>>
        /\ (self'.round_count = self.round_count + 1 /\ ~crashed'
            /\ self.other # "" /\ Loads = <<>>) =>
              Len(Loads') = 1
        /\ Saves' # Saves => turn' = "terminated"
        /\ turn = "opponent" => io_log' = io_log
      ]_vars

\* C18 witness: a finished session of three turns of the agent with one load
\* and one save.
C18_Witness ==
    /\ turn = "terminated"
    /\ self.round_count >= 3
    /\ Len(Loads) = 1
    /\ Len(Saves) = 1

(***************************************************************************)
(* Properties of the cached list of bids.                                  *)
(***************************************************************************)
ListBuilt == self.bids_with_utilities # NoList

\* a list holds every bid of the domain once, each with its own utility, in
\* non-increasing order of utility
CompleteAndDescending(list) ==
    /\ Len(list) = DomainSize(domain)
    /\ {list[k][1] : k \in 1..Len(list)} = Bids(domain)
    /\ \A k \in 1..Len(list) : list[k][2] = getUtility(list[k][1])
    /\ \A k \in 1..(Len(list) - 1) : list[k][2] >= list[k + 1][2]

\* C19: the list of bids is built in the first turn in which find_bid gets
\* past the re-offer of the best received bid and in no other step; once
\* built it is complete and descending, and no later step changes it.
C19_BidListBuiltOnce ==
    [][ /\ ListBuilt => self'.bids_with_utilities = self.bids_with_utilities
        /\ (~ListBuilt /\ self'.bids_with_utilities # NoList) =>
              /\ turn = "me" /\ turn' = "sent_offer"
              /\ last_move'.via \in {"eligible", "fallback"}
        /\ (turn = "me" /\ turn' = "sent_offer" /\ last_move'.via # "best_bid") =>
              self'.bids_with_utilities # NoList
        /\ self'.bids_with_utilities # NoList =>
              CompleteAndDescending(self'.bids_with_utilities)
      ]_vars

\* C19 witness: the list, with two bids of equal utility in it, was built in
\* an earlier turn and the last turn re-offered the best received bid.
C19_Witness ==
    /\ ListBuilt
    /\ self.round_count >= 3
    /\ turn = "opponent"
    /\ last_move.via = "best_bid"
    /\ \E k \in 1..(Len(self.bids_with_utilities) - 1) :
          self.bids_with_utilities[k][2] = self.bids_with_utilities[k + 1][2]

(***************************************************************************)
(* Properties of the choice among the bids that meet the target.           *)
(***************************************************************************)
\* min(100, E)
PrefixLength == IF MeetingTarget < 100 THEN MeetingTarget ELSE 100

\* C20: when the best received bid is not re-offered and E >= 1 bids of the
\* domain meet the target, the bids find_bid can return are exactly the first
\* min(100, E) entries of the descending list, all of them meet the target,
\* and the call takes the branch of the eligible bids.
C20_ReturnsOneOfTheTopEligible ==
    (turn = "find_bid" /\ ~find_bid_reoffers(self, now) /\ MeetingTarget >= 1) =>
        LET sorted == SearchList
            found == find_bid(self, now)
            prefix == {sorted[k][1] : k \in 1..PrefixLength}
        IN  /\ {r.bid : r \in found} = prefix
            /\ Cardinality(prefix) = PrefixLength
            /\ \A b \in prefix : getUtility(b) >= SearchTarget
            /\ \A r \in found : r.via = "eligible"

\* C20 witness: more than 100 bids meet the target and the call returned the
\* entry at position 100 of the list.
C20_Witness ==
    /\ turn = "found"
    /\ last_move.via = "eligible"
    /\ MeetingTarget > 100
    /\ last_move.bid = self.bids_with_utilities[100][1]

\* fewer than 100 bids, and not all, meet the target; the last of them returned
C20_WitnessShort ==
    /\ turn = "found"
    /\ last_move.via = "eligible"
    /\ MeetingTarget > 1 /\ MeetingTarget < 100
    /\ DomainSize(domain) > 100
    /\ last_move.bid = self.bids_with_utilities[MeetingTarget][1]

(***************************************************************************)
(* Properties of the re-offer of the best received bid.                    *)
(***************************************************************************)
ReceivedOffers == IF HasModel THEN opponent_model.offers ELSE <<>>

\* the first of the received offers of highest own utility
FirstBestReceived ==
    LET received == ReceivedOffers
        first == CHOOSE i \in 1..Len(received) :
                    /\ \A j \in 1..Len(received) : getUtility(received[j]) <= getUtility(received[i])
                    /\ \A j \in 1..(i - 1) : getUtility(received[j]) < getUtility(received[i])
    IN  received[first]

AgentOffered == turn = "opponent" /\ last_move.action = "Offer"

\* the conditions of the re-offer for the offer just made
PastSoftThreshold == last_move.progress > light_threshold(self)

BestReceivedWithinTolerance ==
    /\ ReceivedOffers # <<>>
    /\ getUtility(FirstBestReceived) >= find_bid_target(self, last_move.progress) - 1000

\* C21: an offer made past the soft threshold while the first received bid of
\* highest own utility is within 0.1 of the target is that bid; any other
\* offer comes from the search of the bid list, whose results are the same
\* as if no bid had been received.
C21_ReoffersBestReceivedBid ==
    AgentOffered =>
        IF PastSoftThreshold /\ BestReceivedWithinTolerance
        THEN /\ last_move.via = "best_bid"
             /\ last_move.bid = FirstBestReceived
        ELSE /\ last_move.via \in {"eligible", "fallback"}
             /\ find_bid(self, last_move.progress)
                  = find_bid([self EXCEPT !.best_bid = NoBid], last_move.progress)
             /\ \E found \in find_bid([self EXCEPT !.best_bid = NoBid], last_move.progress) :
                  found.bid = last_move.bid /\ found.via = last_move.via

\* C21 witness: the re-offered bid was received twice with another bid of the
\* same utility after it, and its utility is below the target.
C21_Witness ==
    /\ AgentOffered
    /\ last_move.via = "best_bid"
    /\ getUtility(last_move.bid) < last_move.target
    /\ \E i, j \in 1..Len(ReceivedOffers) :
          /\ i < j
          /\ ReceivedOffers[i] = last_move.bid
          /\ ReceivedOffers[j] # last_move.bid
          /\ getUtility(ReceivedOffers[j]) = getUtility(last_move.bid)

\* an offer from the bid list made past the soft threshold with bids received
C21_WitnessSearch ==
    /\ AgentOffered
    /\ PastSoftThreshold
    /\ ReceivedOffers # <<>>
    /\ last_move.via = "eligible"

(***************************************************************************)
(* Properties of the probing phase of find_bid.                            *)
(***************************************************************************)
\* max(0.9, 0.95 - 0.01 * round_count)
ProbingTarget ==
    IF 9500 - 100 * self.round_count > 9000 THEN 9500 - 100 * self.round_count ELSE 9000

\* the target of find_bid is the probing target while round_count < 5, for
\* every progress and every pair of opponent signals, and the target of
\* calculate_target_utility from then on
TargetFollowsProbingPhase ==
    \A progress \in ProgressSamples, v \in VarianceSamples, c \in ConcessionSamples :
        LET agent == [self EXCEPT !.opponent_utility_variance = v, !.concession_rate = c]
        IN  find_bid_target(agent, progress) =
                IF self.round_count < 5 THEN ProbingTarget
                ELSE calculate_target_utility(agent, progress)

\* C22 as stated: with round_count < 5 the target is max(0.9, 0.95 - 0.01 *
\* round_count) whatever the progress and the opponent signals, and when the
\* domain has a bid of utility >= 0.9 every bid find_bid can return has utility
\* >= 0.9; from round_count 5 on the target is calculate_target_utility.
C22_ProbingOffersAtLeastNineTenths ==
    turn = "find_bid" =>
        /\ TargetFollowsProbingPhase
        /\ (self.round_count < 5
            /\ \E index \in 0..(DomainSize(domain) - 1) : profile[index + 1] >= 9000) =>
               \A found \in find_bid(self, now) : getUtility(found.bid) >= 9000

\* C22 amended: with round_count < 5 the target is max(0.9, 0.95 - 0.01 *
\* round_count) whatever the progress and the opponent signals, and when the
\* domain has a bid that meets this target every bid find_bid can return,
\* the re-offered best received bid apart, meets it; from round_count 5 on the
\* target is calculate_target_utility.
C22_ProbingOffersMeetProbingTarget ==
    turn = "find_bid" =>
        /\ TargetFollowsProbingPhase
        /\ (self.round_count < 5 /\ MeetingTarget >= 1) =>
               \A found \in find_bid(self, now) :
                   found.via # "best_bid" =>
                       /\ found.target = ProbingTarget
                       /\ getUtility(found.bid) >= ProbingTarget
                       /\ getUtility(found.bid) >= 9000

\* C22 witness: in the fourth turn the bid of utility 0.92 was offered as the
\* only bid that meets the target 0.91.
C22_Witness ==
    /\ turn = "found"
    /\ self.round_count = 4
    /\ last_move.via = "eligible"
    /\ last_move.target = 9100
    /\ getUtility(last_move.bid) = 9200
    /\ MeetingTarget = 1

(***************************************************************************)
(* Properties of the issue weight as a concentration statistic.            *)
(***************************************************************************)
\* how often the received offers proposed a value for an issue
TimesOffered(i, value) ==
    Cardinality({k \in 1..Len(opponent_model.offers) : opponent_model.offers[k][i] = value})

MostOffered(i) ==
    CHOOSE c \in 0..Len(opponent_model.offers) :
        /\ \E value \in 1..domain[i] : TimesOffered(i, value) = c
        /\ \A value \in 1..domain[i] : TimesOffered(i, value) <= c

\* C23: after every update of the estimator of an issue with n >= 2 values the
\* weight is in [0,1]; it is 1 exactly when all offers so far proposed the
\* same value and 0 exactly when the count of the most offered value times n
\* is the number of offers.
C23_WeightIsConcentration ==
    HasModel =>
        \A i \in DOMAIN Estimators :
            (Estimators[i].num_values >= 2 /\ Estimators[i].bids_received >= 1) =>
                /\ Estimators[i].weight >= 0
                /\ Estimators[i].weight <= Scale
                /\ Estimators[i].weight = Scale
                     <=> \A k \in 1..Len(opponent_model.offers) :
                            opponent_model.offers[k][i] = opponent_model.offers[1][i]
                /\ Estimators[i].weight = 0
                     <=> MostOffered(i) * domain[i] = Len(opponent_model.offers)

\* C23 witness: after four offers one issue saw each of its two values twice
\* (weight 0), another saw one value only (weight 1).
C23_Witness ==
    /\ HasModel /\ ~crashed
    /\ Len(opponent_model.offers) = 4
    /\ \E i, j \in DOMAIN Estimators :
          /\ Estimators[i].num_values = 2
          /\ Estimators[i].weight = 0
          /\ MostOffered(i) = 2
          /\ Estimators[j].weight = Scale
          /\ MostOffered(j) = 4

\* an issue of three values with a weight strictly between 0 and 1
C23_WitnessBetween ==
    /\ HasModel /\ ~crashed
    /\ \E i \in DOMAIN Estimators :
          /\ Estimators[i].num_values = 3
          /\ Estimators[i].weight > 0
          /\ Estimators[i].weight < Scale

(***************************************************************************)
(* Agreement of the counters of the opponent model.                        *)
(***************************************************************************)
\* the sum of the values of a function with a finite domain
RECURSIVE SumOver(_, _)
SumOver(f, keys) ==
    IF keys = {} THEN 0
    ELSE LET key == CHOOSE key \in keys : TRUE
         IN  f[key] + SumOver(f, keys \ {key})

CountersAgree(om) ==
    /\ om.bid_count = Len(om.offers)
    /\ om.bid_count = Len(om.opponent_utilities)
    /\ om.bid_count = SumOver(om.repeated_bids, DOMAIN om.repeated_bids)
    /\ \A i \in DOMAIN om.issue_estimators :
          LET est == om.issue_estimators[i]
              counts == [v \in DOMAIN est.value_trackers |-> est.value_trackers[v].count]
          IN  /\ est.bids_received = om.bid_count
              /\ est.bids_received = SumOver(counts, DOMAIN counts)
              /\ \A v \in DOMAIN counts : counts[v] <= est.max_value_count
              /\ (est.max_value_count = 0 /\ DOMAIN counts = {})
                 \/ \E v \in DOMAIN counts : counts[v] = est.max_value_count

\* C24: in every reachable state of the opponent model bid_count, the length
\* of offers, the length of opponent_utilities and the sum of repeated_bids
\* are equal, and every issue estimator has bids_received = bid_count = the
\* sum of its tracker counts and max_value_count = its largest tracker count.
C24_CountersAgree == HasModel => CountersAgree(opponent_model)

\* the same in the states no raising update has produced
C24_CountersAgreeWhileNoUpdateRaised == (HasModel /\ ~crashed) => CountersAgree(opponent_model)

(***************************************************************************)
(* The bookkeeping of the agent against that of its opponent model.        *)
(***************************************************************************)
BookkeepingMirrorsModel ==
    /\ self.opponent_utilities = opponent_model.opponent_utilities
    /\ self.best_bid # NoBid
    /\ getUtility(self.best_bid) = opponent_model.best_bid_utility
    /\ Len(opponent_model.offers) >= 5 =>
          self.concession_rate = opponent_model.concession_rate

\* C25: after every received offer the agent's opponent_utilities equal the
\* model's element by element, the own utility of the agent's best_bid is the
\* model's best_bid_utility, and from the fifth offer on the agent's
\* concession_rate is the model's.
C25_BookkeepingMirrorsModel ==
    (HasModel /\ opponent_model.offers # <<>>) => BookkeepingMirrorsModel

\* the same after the offers whose handling returned
C25_BookkeepingMirrorsModelWhileNoUpdateRaised ==
    (HasModel /\ opponent_model.offers # <<>> /\ ~crashed) => BookkeepingMirrorsModel

\* five offers were handled and the two concession rates are positive
C25_MirroredState ==
    /\ HasModel /\ ~crashed
    /\ Len(opponent_model.offers) = 5
    /\ BookkeepingMirrorsModel
    /\ self.concession_rate > 0
    /\ self.best_bid # opponent_model.offers[1]

(***************************************************************************)
(* One action per turn.                                                    *)
(***************************************************************************)
\* the step handles a YourTurn: my_turn counts the round first
HandlesYourTurn == turn = "me" /\ self'.round_count = self.round_count + 1

TurnSendsOneAction ==
    HandlesYourTurn =>
        /\ turn' \in {"sent_offer", "sent_accept"}
        /\ last_move'.action = (IF turn' = "sent_offer" THEN "Offer" ELSE "Accept")
        /\ last_move'.bid # NoBid

AcceptCarriesLastReceivedBid ==
    (HandlesYourTurn /\ last_move'.action = "Accept" /\ turn' = "sent_accept") =>
        /\ HasModel
        /\ last_move'.bid = LastOffer

OnlyTurnsSendActions == ~HandlesYourTurn => last_move' = last_move

DidAcceptOnlyWithAccept == self'.did_accept => last_move'.action = "Accept"

OwnActionDoneChangesNothing ==
    turn \in {"sent_offer", "sent_accept"} =>
        /\ self'.last_received_bid = self.last_received_bid
        /\ opponent_model' = opponent_model

\* C26: every YourTurn makes the agent send one action, an Offer or an
\* Accept, and no other message makes it send one; an Accept carries the
\* latest offer of the opponent; did_accept is set only when an Accept was
\* sent; the ActionDone of the agent's own action changes neither
\* last_received_bid nor the opponent model.
C26_OneActionPerTurn ==
    [][ /\ TurnSendsOneAction
        /\ AcceptCarriesLastReceivedBid
        /\ OnlyTurnsSendActions
        /\ DidAcceptOnlyWithAccept
        /\ OwnActionDoneChangesNothing ]_vars

\* the same for the turns whose load of the opponent profile does not raise
C26_OneActionPerTurnWhileLoadReturns ==
    [][ (HandlesYourTurn => ~crashed') =>
            /\ TurnSendsOneAction
            /\ AcceptCarriesLastReceivedBid
            /\ OnlyTurnsSendActions
            /\ DidAcceptOnlyWithAccept
            /\ OwnActionDoneChangesNothing ]_vars

\* an Accept was sent and reported back after an earlier, better offer
C26_AcceptSent ==
    /\ turn = "agreed_their_offer"
    /\ self.did_accept
    /\ Len(opponent_model.offers) >= 2
    /\ last_move.bid # self.best_bid

(***************************************************************************)
(* The opponent signals in the first offers of a session.                  *)
(***************************************************************************)
\* C27: while fewer than 5 offers were received the variance and the
\* concession rate of the agent are 0 and calculate_target_utility uses
\* factor 1.1 and umin 0.65 at every progress; factor 0.8 and umin 0.75 are
\* used only after the fifth offer and only with variance >= 0.01 and
\* concession rate >= 0.02.
C27_SignalsSilentBeforeFifthOffer ==
    /\ Len(ReceivedOffers) < 5 =>
          /\ self.opponent_utility_variance = 0
          /\ self.concession_rate = 0
          /\ concession_factor(self) = 11000
          /\ adjusted_umin(self) = 6500
          /\ \A p \in ProgressGrid :
                calculate_target_utility(self, p)
                    = (IF 9500 - RoundDiv(RoundDiv(3000 * p, Scale) * 11000, Scale) > 6500
                       THEN 9500 - RoundDiv(RoundDiv(3000 * p, Scale) * 11000, Scale)
                       ELSE 6500)
    /\ (concession_factor(self) = 8000 \/ adjusted_umin(self) = 7500) =>
          /\ Len(ReceivedOffers) >= 5
          /\ self.opponent_utility_variance >= 100
          /\ self.concession_rate >= 200
          /\ concession_factor(self) = 8000
          /\ adjusted_umin(self) = 7500

\* C27 witness: four offers among which the opponent model measured a
\* concession of at least 0.02, and the agent is to move.
C27_Witness ==
    /\ turn = "me"
    /\ Len(ReceivedOffers) = 4
    /\ opponent_model.concession_rate >= 200
    /\ self.concession_rate = 0

\* the fifth offer put the target on factor 0.8 and umin 0.75
C27_WitnessHigh ==
    /\ turn = "me"
    /\ Len(ReceivedOffers) = 5
    /\ concession_factor(self) = 8000
    /\ adjusted_umin(self) = 7500

(***************************************************************************)
(* The learned knobs of the agent.                                         *)
(***************************************************************************)
Knobs(agent) ==
    <<agent.force_accept_at_remaining_turns, agent.force_accept_at_remaining_turns_light,
      agent.top_bids_percentage>>

\* 1.0, 1.0 and 1/300
DefaultKnobs == <<Scale, Scale, RoundDiv(Scale, 300)>>

\* the step loads the profile of the opponent
LoadsProfile == Len(Loads') = Len(Loads) + 1

\* C28: the knobs of the agent change only in the turn that loads the
\* profile, and only when an opponent model exists and the profile has a
\* session; until then, and for good after a load of a profile without
\* sessions, they are 1.0, 1.0 and 1/300.  A loaded profile whose sessions
\* all ended with a utility other than 0 sets the first two knobs to 0.
C28_KnobsLearnedOnlyAtLoad ==
    [][ /\ Knobs(self') # Knobs(self) =>
              LoadsProfile /\ HasModel /\ self'.opponent.sessions # <<>>
        /\ Loads' = <<>> => Knobs(self') = DefaultKnobs
        /\ (LoadsProfile /\ self'.opponent.sessions = <<>>) => Knobs(self') = DefaultKnobs
        /\ (LoadsProfile /\ self'.opponent.sessions # <<>>) =>
              /\ HasModel
              /\ (\A k \in 1..Len(self'.opponent.sessions) :
                     self'.opponent.sessions[k].utilityAtFinish # 0) =>
                    /\ self'.force_accept_at_remaining_turns = 0
                    /\ self'.force_accept_at_remaining_turns_light = 0
      ]_vars

\* C28 witness: the agent moved first, loaded a profile with one session of
\* utility 0.85 in its second turn, and is in its third turn with both
\* force-accept knobs 0.
C28_Witness ==
    /\ turn = "sent_offer"
    /\ self.round_count = 3
    /\ Len(ReceivedOffers) = 2
    /\ Len(Loads) = 1
    /\ Len(self.opponent.sessions) = 1
    /\ self.opponent.sessions[1].utilityAtFinish = 8500
    /\ Knobs(self) = <<0, 0, RoundDiv(Scale, 300)>>

\* a profile without sessions was loaded and the knobs are the defaults
C28_WitnessEmptyHistory ==
    /\ turn = "sent_offer"
    /\ self.round_count = 2
    /\ Len(Loads) = 1
    /\ self.opponent.sessions = <<>>
    /\ Knobs(self) = DefaultKnobs

====
